---------------------------- MODULE Spec2Model ----------------------------
(***************************************************************************)
(* A model of the VPC manager (lambda/app/vpcops.py) and of the API layer  *)
(* in front of it (lambda/app/main.py).                                    *)
(*                                                                         *)
(* The provider (EC2) and the record store (DynamoDB table) are state; the *)
(* manager's methods are step machines, one action per remote or store     *)
(* call, so that every failure position of a call can be explored.         *)
(***************************************************************************)
EXTENDS Integers, Sequences, FiniteSets, TLC

VARIABLES
    ec2,      \* the provider: resources that exist and the id allocator
    table,    \* the record store: VpcId -> item
    call,     \* the frame of the manager call in flight (op = "idle": none)
    pre,      \* ec2 and table as they were when the call in flight started
    made,     \* history: VpcId -> subnet_count of each create_vpc that returned a record
    started,  \* history: how many create_vpc calls were started
    calls,    \* history: how many create_vpc, update_vpc and delete_vpc calls were started
    faults,   \* history: how many calls were made to fail so far
    part,     \* the harness that applies _calculate_subnets to drawn inputs
    race      \* two update_vpc calls in flight at once (pc = "off": none)

vars == <<ec2, table, call, pre, made, started, calls, faults, part, race>>

---------------------------------------------------------------------------
(* Bounds of the model *)

\* the largest subnet count drawn for a provision that creates its subnets
MaxSubnets == 2
\* how many create_vpc calls may be started in one behaviour
MaxProvisions == 2
\* how many create_vpc, update_vpc and delete_vpc calls may be started in one
\* behaviour
MaxCalls == 3
\* how many remote or store calls of one behaviour may be made to fail
\* although the provider (or the store) could have served them
MaxFaults == 2
\* a subnet count no drawn base network can hold
BigCount == 17
\* the largest subnet count drawn for the partitioner harness
MaxCount == 6
\* the subnet count of the provision whose rollback is followed step by step
RollbackSubnets == 4

---------------------------------------------------------------------------
(* Values *)

\* Python's None where an identifier (a non-empty string) is expected
None == 0

\* Optional[T] for values that are not identifiers: <<>> is None, <<x>> is x
Nothing == <<>>
Some(x) == <<x>>
IsNone(o) == o = <<>>
Unwrap(o) == o[1]

Min(a, b) == IF a <= b THEN a ELSE b
Max(a, b) == IF a >= b THEN a ELSE b

RECURSIVE Pow2(_)
Pow2(n) == IF n <= 0 THEN 1 ELSE 2 * Pow2(n - 1)

TakeAll(s, c) == s

\* Python's list[:c], negative c included
Take(s, c) ==
    IF c >= 0 THEN SubSeq(s, 1, Min(c, Len(s)))
    ELSE SubSeq(s, 1, Max(Len(s) + c, 0))

\* the set of the elements of a sequence
Range(s) == {s[i] : i \in 1..Len(s)}

\* the elements of a finite set of integers in ascending order
RECURSIVE Sorted(_)
Sorted(S) ==
    IF S = {} THEN <<>>
    ELSE LET m == CHOOSE x \in S : \A y \in S : x <= y
         IN <<m>> \o Sorted(S \ {m})

---------------------------------------------------------------------------
(* ipaddress.ip_network(text, strict=False) and str(network).              *)
(* A CIDR text is the sequence of the numbers written in it:               *)
(* "10.0.0.0/20" is <<10,0,0,0,20>>, "10.0.0.0" is <<10,0,0,0>>; a text    *)
(* that holds something other than numbers is written with a -1.          *)

AddrBits == 32

ValidCidrLoose(text) == Len(text) \in {4, 5}

ValidCidr(text) ==
    /\ Len(text) \in {4, 5}
    /\ \A i \in 1..4 : text[i] \in 0..255
    /\ Len(text) = 5 => text[5] \in 0..AddrBits

\* the network of a valid text: host bits are masked off (strict=False)
NetworkOf(text) ==
    LET p    == IF Len(text) = 5 THEN text[5] ELSE AddrBits
        raw  == ((text[1] * 256 + text[2]) * 256 + text[3]) * 256 + text[4]
        size == Pow2(AddrBits - p)
    IN [addr |-> raw - (raw % size), prefixlen |-> p]

\* ip_network: [ok |-> FALSE] stands for the ValueError
ip_network(text) ==
    IF ValidCidr(text) THEN [ok |-> TRUE, net |-> NetworkOf(text)]
    ELSE [ok |-> FALSE, net |-> [addr |-> 0, prefixlen |-> 0]]

\* str(network)
FormatNetwork(net) ==
    << net.addr \div 16777216, (net.addr \div 65536) % 256,
       (net.addr \div 256) % 256, net.addr % 256, net.prefixlen >>

---------------------------------------------------------------------------
(* VpcManager._calculate_subnets *)

LoopGuardOff(max_subnets, count, current_prefix) ==
    max_subnets < count /\ current_prefix < AddrBits - 1

\* the condition of the while loop
LoopGuard(max_subnets, count, current_prefix) ==
    max_subnets < count /\ current_prefix < AddrBits

\* the while loop: the prefix and the capacity it ends with
RECURSIVE PrefixSearch(_, _, _, _)
PrefixSearch(prefixlen, count, current_prefix, max_subnets) ==
    IF LoopGuard(max_subnets, count, current_prefix)
    THEN PrefixSearch(prefixlen, count, current_prefix + 1,
                      Pow2(current_prefix + 1 - prefixlen))
    ELSE [current_prefix |-> current_prefix, max_subnets |-> max_subnets]

\* list(network.subnets(new_prefix=p)): a /32 yields itself; otherwise the
\* blocks at range(start, end, step)
SubnetsOf(net, new_prefix) ==
    IF net.prefixlen = AddrBits THEN <<net>>
    ELSE LET diff == new_prefix - net.prefixlen
             step == Pow2(AddrBits - net.prefixlen) \div Pow2(diff)
         IN [i \in 1..Pow2(diff) |->
                [addr |-> net.addr + (i - 1) * step, prefixlen |-> new_prefix]]

\* [raised |-> TRUE] stands for the ValueError (unparsable text or capacity)
CalculateSubnets(vpc_cidr, count) ==
    LET parsed == ip_network(vpc_cidr)
        network == parsed.net
        found == PrefixSearch(network.prefixlen, count, network.prefixlen, 1)
        subnets == Take(SubnetsOf(network, found.current_prefix), count)
    IN IF ~parsed.ok \/ found.max_subnets < count
       THEN [raised |-> TRUE, subnets |-> <<>>, prefix |-> 0]
       ELSE [raised |-> FALSE,
             subnets |-> [i \in 1..Len(subnets) |-> FormatNetwork(subnets[i])],
             prefix |-> found.current_prefix]

---------------------------------------------------------------------------
(* The provider.  Identifiers are positive integers handed out in order;   *)
(* the main route table of VPC v, which the provider creates and deletes   *)
(* with the VPC, is -v.  An explicit association of a subnet with a route  *)
(* table is identified by the subnet; a main association by the table.     *)

EmptyFn == [x \in {} |-> 0]
Drop(f, k) == [x \in DOMAIN f \ {k} |-> f[x]]
Put(f, k, v) == [x \in DOMAIN f \cup {k} |-> IF x = k THEN v ELSE f[x]]

DefaultRoute == <<0, 0, 0, 0, 0>>

Ec2Init ==
    [nextId |-> 1,
     vpcs |-> EmptyFn,       \* VpcId -> CidrBlock
     dns |-> {},             \* VPCs whose EnableDnsSupport was set
     igws |-> {},            \* internet gateways
     attach |-> {},          \* <<InternetGatewayId, VpcId>>
     rts |-> EmptyFn,        \* RouteTableId -> VpcId (non-main tables)
     routes |-> {},          \* <<RouteTableId, DestinationCidrBlock, GatewayId>>
     subnets |-> EmptyFn,    \* SubnetId -> [vpc, cidr]
     assoc |-> EmptyFn,      \* SubnetId -> RouteTableId
     tags |-> EmptyFn]       \* resource id -> set of <<Key, Value>>

Resources(e) == DOMAIN e.vpcs \cup e.igws \cup DOMAIN e.rts \cup DOMAIN e.subnets

\* create_tags overwrites the keys it is given and keeps the others
MergeTags(old, new) ==
    {t \in old : \A i \in 1..Len(new) : new[i].Key # t[1]}
        \cup {<<new[i].Key, new[i].Value>> : i \in 1..Len(new)}

\* what each call needs in order to be served
CanModifyVpc(e, v) == v \in DOMAIN e.vpcs
CanTag(e, r) == r \in Resources(e)
CanAttach(e, v, g) ==
    /\ v \in DOMAIN e.vpcs /\ g \in e.igws
    /\ \A a \in e.attach : a[1] # g /\ a[2] # v
CanCreateRt(e, v) == v \in DOMAIN e.vpcs
CanCreateRoute(e, rt, g) == rt \in DOMAIN e.rts /\ g \in e.igws
CanCreateSubnet(e, v, cidr) ==
    /\ v \in DOMAIN e.vpcs
    /\ \A s \in DOMAIN e.subnets :
          ~(e.subnets[s].vpc = v /\ e.subnets[s].cidr = cidr)
CanAssociate(e, s, rt) == s \in DOMAIN e.subnets /\ rt \in DOMAIN e.rts
CanDeleteSubnet(e, s) == s \in DOMAIN e.subnets
CanDisassociate(e, a) == a \in DOMAIN e.assoc
CanDeleteRt(e, rt) ==
    /\ rt \in DOMAIN e.rts
    /\ \A s \in DOMAIN e.assoc : e.assoc[s] # rt
CanDetach(e, g, v) == <<g, v>> \in e.attach
CanDeleteIgw(e, g) == g \in e.igws /\ \A a \in e.attach : a[1] # g
CanDeleteVpc(e, v) ==
    /\ v \in DOMAIN e.vpcs
    /\ \A s \in DOMAIN e.subnets : e.subnets[s].vpc # v
    /\ \A rt \in DOMAIN e.rts : e.rts[rt] # v
    /\ \A a \in e.attach : a[2] # v

\* what each call does when it is served
DoCreateVpc(e, cidr) ==
    [e EXCEPT !.nextId = @ + 1, !.vpcs = Put(@, e.nextId, cidr),
              !.tags = Put(@, e.nextId, {})]
DoModifyVpc(e, v) == [e EXCEPT !.dns = @ \cup {v}]
DoTag(e, r, new) == [e EXCEPT !.tags = Put(@, r, MergeTags(e.tags[r], new))]
DoCreateIgw(e) ==
    [e EXCEPT !.nextId = @ + 1, !.igws = @ \cup {e.nextId},
              !.tags = Put(@, e.nextId, {})]
DoAttach(e, v, g) == [e EXCEPT !.attach = @ \cup {<<g, v>>}]
DoCreateRt(e, v) ==
    [e EXCEPT !.nextId = @ + 1, !.rts = Put(@, e.nextId, v),
              !.tags = Put(@, e.nextId, {})]
\* the route put on every route table there is
DoCreateRouteToAll(e, rt, dest, g) ==
    [e EXCEPT !.routes = @ \cup {<<t, dest, g>> : t \in DOMAIN e.rts}]

DoCreateRoute(e, rt, dest, g) == [e EXCEPT !.routes = @ \cup {<<rt, dest, g>>}]
DoCreateSubnet(e, v, cidr) ==
    [e EXCEPT !.nextId = @ + 1,
              !.subnets = Put(@, e.nextId, [vpc |-> v, cidr |-> cidr]),
              !.tags = Put(@, e.nextId, {})]
DoAssociate(e, s, rt) == [e EXCEPT !.assoc = Put(@, s, rt)]
DoDeleteSubnet(e, s) ==
    [e EXCEPT !.subnets = Drop(@, s), !.assoc = Drop(@, s), !.tags = Drop(@, s)]
DoDisassociate(e, a) == [e EXCEPT !.assoc = Drop(@, a)]
DoDeleteRt(e, rt) ==
    [e EXCEPT !.rts = Drop(@, rt), !.tags = Drop(@, rt),
              !.routes = {r \in @ : r[1] # rt}]
DoDetach(e, g, v) == [e EXCEPT !.attach = @ \ {<<g, v>>}]
DoDeleteIgw(e, g) ==
    [e EXCEPT !.igws = @ \ {g}, !.tags = Drop(@, g),
              !.routes = {r \in @ : r[3] # g}]
DoDeleteVpc(e, v) ==
    [e EXCEPT !.vpcs = Drop(@, v), !.dns = @ \ {v}, !.tags = Drop(@, v)]

\* describe_route_tables filtered by vpc-id: the main table, then the others
DescribeRouteTables(e, v) ==
    IF v \notin DOMAIN e.vpcs THEN <<>>
    ELSE LET own == Sorted({rt \in DOMAIN e.rts : e.rts[rt] = v})
             assocs(rt) == Sorted({s \in DOMAIN e.assoc : e.assoc[s] = rt})
         IN << [RouteTableId |-> -v,
                Associations |-> <<[Main |-> TRUE, RouteTableAssociationId |-> -v]>>] >>
            \o [i \in 1..Len(own) |->
                  [RouteTableId |-> own[i],
                   Associations |->
                     [j \in 1..Len(assocs(own[i])) |->
                        [Main |-> FALSE,
                         RouteTableAssociationId |-> assocs(own[i])[j]]]]]

\* describe_internet_gateways filtered by attachment.vpc-id
DescribeInternetGateways(e, v) == Sorted({g \in e.igws : <<g, v>> \in e.attach})

---------------------------------------------------------------------------
(* The record store: one item per VpcId, an item being the attributes it   *)
(* holds (a record created by update_item holds only VpcId and Tags).      *)

HasAttr(item, a) == a \in DOMAIN item
Get(item, a, default) == IF HasAttr(item, a) THEN item[a] ELSE default
SetAttr(item, a, v) == [x \in DOMAIN item \cup {a} |-> IF x = a THEN v ELSE item[x]]

\* table.get_item(Key={"VpcId": key}).get("Item")
GetItem(t, key) == IF key \in DOMAIN t THEN Some(t[key]) ELSE Nothing

PutItemAnyway(t, item, ok) == Put(t, item.VpcId, item)

\* table.put_item(Item=item); a put that raises has written nothing
PutItem(t, item, ok) == IF ok THEN Put(t, item.VpcId, item) ELSE t

UpdateItemMerging(t, key, val, ok) ==
    IF ~ok THEN t
    ELSE IF key \in DOMAIN t
         THEN [t EXCEPT ![key] = SetAttr(@, "Tags", Get(@, "Tags", <<>>) \o val)]
         ELSE Put(t, key, SetAttr([VpcId |-> key], "Tags", val))

\* table.update_item(Key, "SET #tg = :val"): no condition on the key, so an
\* item that does not exist is created with the key and the attribute set
UpdateItem(t, key, val, ok) ==
    IF ~ok THEN t
    ELSE IF key \in DOMAIN t THEN [t EXCEPT ![key] = SetAttr(@, "Tags", val)]
    ELSE Put(t, key, SetAttr([VpcId |-> key], "Tags", val))

\* table.delete_item(Key)
DeleteItem(t, key, ok) == IF ok THEN Drop(t, key) ELSE t

\* table.scan().get("Items", [])
Scan(t) == [i \in 1..Cardinality(DOMAIN t) |-> t[Sorted(DOMAIN t)[i]]]

\* VpcManager._normalize_vpc_record
NormalizeItem(item, region_name) ==
    [vpc_id |-> item.VpcId,
     subnet_ids |-> Get(item, "SubnetIds", <<>>),
     tags |-> Get(item, "Tags", <<>>),
     region |-> Get(item, "Region", region_name),
     igw |-> Get(item, "igw", None),
     route_tables |-> IF HasAttr(item, "RouteTables")
                      THEN Some(item.RouteTables) ELSE Nothing]

normalize_vpc_record_never_none(record, region_name) ==
    Some(NormalizeItem(IF IsNone(record) THEN [VpcId |-> None] ELSE Unwrap(record),
                       region_name))

normalize_vpc_record(record, region_name) ==
    IF IsNone(record) THEN Nothing
    ELSE Some(NormalizeItem(Unwrap(record), region_name))

---------------------------------------------------------------------------
(* Inputs *)

Val(s) == <<s, 0>>
TagName == [Key |-> "Name", Value |-> Val("TestVPC")]
TagEnv == [Key |-> "Env", Value |-> Val("Dev")]
TagWeb == [Key |-> "Name", Value |-> Val("web")]

NotNoneOnly(o) == ~IsNone(o)

\* "if tags:" -- neither None nor empty
Truthy(o) == ~IsNone(o) /\ Unwrap(o) # <<>>

Regions == {"us-east-1"}

CidrA == <<10, 1, 2, 3, 20>>        \* "10.1.2.3/20", host bits set
CidrSmall == <<10, 0, 0, 0, 28>>    \* "10.0.0.0/28"
CidrBad == <<-1, -1, -1, -1, 16>>   \* "X.X.X.X/16"

Req(cidr, n, k, vt, st) ==
    [vpc_cidr |-> cidr, subnet_count |-> n, public_subnet_count |-> k,
     vpc_tags |-> vt, subnet_tags |-> st]

CreateRequests ==
    {Req(CidrA, n, Nothing, Nothing, Nothing) : n \in 1..MaxSubnets}
    \cup {Req(CidrA, MaxSubnets, Some(k), Some(<<TagName>>), Some(<<TagWeb>>)) :
            k \in {0, MaxSubnets + 1}}
    \cup {Req(CidrSmall, BigCount, Nothing, Nothing, Nothing),
          Req(CidrBad, MaxSubnets, Nothing, Nothing, Nothing)}

UpdateTags == {Nothing, Some(<<>>), Some(<<TagEnv>>), Some(<<TagName>>)}

\* the ids a caller may name: every VPC and every record there is, and an id
\* the provider has not handed out
KnownIds == DOMAIN ec2.vpcs \cup DOMAIN table \cup {ec2.nextId}

\* the ids update_vpc may be given: the path parameter is any text, the id of
\* a gateway, a route table or a subnet included
UpdateIds == KnownIds \cup Resources(ec2)

---------------------------------------------------------------------------
(* The frame of a manager call *)

Idle ==
    [op |-> "idle", pc |-> "idle", region |-> "",
     vpc_cidr |-> <<>>, subnet_count |-> 0, public_subnet_count |-> Nothing,
     vpc_tags |-> Nothing, subnet_tags |-> Nothing, tags |-> Nothing,
     vpc_id |-> None, network |-> <<>>, igw_id |-> None,
     rt_public_id |-> None, rt_private_id |-> None, subnet_ids |-> <<>>,
     public_count |-> 0, subnet_cidrs |-> <<>>, idx |-> 0,
     ri |-> 0,                               \* position in _rollback_vpc's loops
     record |-> Nothing, rts |-> <<>>, rti |-> 0, ai |-> 0, gws |-> <<>>,
     gi |-> 0,                               \* positions in delete_vpc's loops
     outcome |-> "none", result |-> Nothing,
     log |-> <<>>]                           \* the remote and store calls issued

Finish(c, outcome, result) ==
    [c EXCEPT !.pc = "done", !.outcome = outcome, !.result = result]

\* whether a call that could be served may be made to fail
Choices(can) == IF can /\ faults < MaxFaults THEN {TRUE, FALSE} ELSE {FALSE}

Entry(api, id, ok, inj, ph) ==
    [api |-> api, id |-> id, ok |-> ok, inj |-> inj, ph |-> ph]

\* a remote call: served (e1, cOk) or failed (cFail)
Remote(api, id, ph, can, e1, cOk, cFail) ==
    \E inj \in Choices(can) :
        LET ok == can /\ ~inj IN
        /\ ec2' = IF ok THEN e1 ELSE ec2
        /\ call' = [(IF ok THEN cOk ELSE cFail) EXCEPT
                        !.log = Append(call.log, Entry(api, id, ok, inj, ph))]
        /\ faults' = IF inj THEN faults + 1 ELSE faults
        /\ UNCHANGED <<table, pre, made, started, calls, part, race>>

---------------------------------------------------------------------------
(* VpcManager._rollback_vpc *)

RtIds(c) == <<c.rt_public_id, c.rt_private_id>>

RECURSIVE RbSeekNoSkip(_, _, _)
RbSeekNoSkip(c, stage, i) ==
    CASE stage = "rb_subnet" ->
            IF i <= Len(c.subnet_ids) THEN <<stage, i>> ELSE RbSeekNoSkip(c, "rb_rt", 1)
      [] stage = "rb_rt" ->
            IF i > Len(RtIds(c)) THEN RbSeekNoSkip(c, "rb_igw", 1)
            ELSE <<stage, i>>
      [] stage = "rb_igw" ->
            IF c.igw_id # None /\ c.vpc_id # None THEN <<"rb_detach", 1>>
            ELSE RbSeekNoSkip(c, "rb_vpc", 1)
      [] stage = "rb_vpc" ->
            IF c.vpc_id # None THEN <<"rb_vpc", 1>> ELSE <<"return", 1>>

\* the next call _rollback_vpc makes from position i of a stage on
RECURSIVE RbSeek(_, _, _)
RbSeek(c, stage, i) ==
    CASE stage = "rb_subnet" ->
            IF i <= Len(c.subnet_ids) THEN <<stage, i>> ELSE RbSeek(c, "rb_rt", 1)
      [] stage = "rb_rt" ->
            IF i > Len(RtIds(c)) THEN RbSeek(c, "rb_igw", 1)
            ELSE IF RtIds(c)[i] # None THEN <<stage, i>>
            ELSE RbSeek(c, "rb_rt", i + 1)
      [] stage = "rb_igw" ->
            IF c.igw_id # None /\ c.vpc_id # None THEN <<"rb_detach", 1>>
            ELSE RbSeek(c, "rb_vpc", 1)
      [] stage = "rb_vpc" ->
            IF c.vpc_id # None THEN <<"rb_vpc", 1>> ELSE <<"return", 1>>

RbGotoReraise(c, stage, i) ==
    LET p == RbSeek(c, stage, i)
    IN IF p[1] = "return" THEN Finish(c, "raised", Nothing)
       ELSE [c EXCEPT !.pc = p[1], !.ri = p[2]]

\* create_vpc returns None once _rollback_vpc is through
RbGoto(c, stage, i) ==
    LET p == RbSeek(c, stage, i)
    IN IF p[1] = "return" THEN Finish(c, "returned", Nothing)
       ELSE [c EXCEPT !.pc = p[1], !.ri = p[2]]

RollbackWithoutLastSubnet(c) ==
    RbGoto([c EXCEPT !.subnet_ids = Take(@, Len(@) - 1)], "rb_subnet", 1)

\* the except clause entered again and again, _rollback_vpc never called
RollbackNever(c) == c

\* the except clause of create_vpc
Rollback(c) == RbGoto(c, "rb_subnet", 1)

RbOnErrorAbort(c, next) == Finish(c, "raised", Nothing)

\* the except clauses of _rollback_vpc: the failure is logged and the method
\* goes on with what follows the try
RbOnError(c, next) == next

RbDeleteSubnet ==
    /\ call.pc = "rb_subnet"
    /\ LET sid == call.subnet_ids[call.ri]
           next == RbGoto(call, "rb_subnet", call.ri + 1)
       IN Remote("delete_subnet", sid, "rollback", CanDeleteSubnet(ec2, sid),
                 DoDeleteSubnet(ec2, sid), next, RbOnError(call, next))

RbDeleteRouteTable ==
    /\ call.pc = "rb_rt"
    /\ LET rt == RtIds(call)[call.ri]
           next == RbGoto(call, "rb_rt", call.ri + 1)
       IN Remote("delete_route_table", rt, "rollback", CanDeleteRt(ec2, rt),
                 DoDeleteRt(ec2, rt), next, RbOnError(call, next))

\* detach and delete share one try: a failed detach skips the delete
RbDetachIgw ==
    /\ call.pc = "rb_detach"
    /\ Remote("detach_internet_gateway", call.igw_id, "rollback",
              CanDetach(ec2, call.igw_id, call.vpc_id),
              DoDetach(ec2, call.igw_id, call.vpc_id),
              [call EXCEPT !.pc = "rb_delete_igw"],
              RbOnError(call, RbGoto(call, "rb_vpc", 1)))

RbDeleteIgw ==
    /\ call.pc = "rb_delete_igw"
    /\ LET next == RbGoto(call, "rb_vpc", 1)
       IN Remote("delete_internet_gateway", call.igw_id, "rollback",
                 CanDeleteIgw(ec2, call.igw_id),
                 DoDeleteIgw(ec2, call.igw_id), next, RbOnError(call, next))

RbDeleteVpc ==
    /\ call.pc = "rb_vpc"
    /\ LET next == Finish(call, "returned", Nothing)
       IN Remote("delete_vpc", call.vpc_id, "rollback",
                 CanDeleteVpc(ec2, call.vpc_id),
                 DoDeleteVpc(ec2, call.vpc_id), next, RbOnError(call, next))

---------------------------------------------------------------------------
(* VpcManager.create_vpc *)

CreateStart ==
    /\ call.op = "idle"
    /\ started < MaxProvisions /\ calls < MaxCalls
    /\ \E req \in CreateRequests, region \in Regions :
          call' = [Idle EXCEPT !.op = "create", !.pc = "ip_network",
                       !.region = region,
                       !.vpc_cidr = req.vpc_cidr,
                       !.subnet_count = req.subnet_count,
                       !.public_subnet_count = req.public_subnet_count,
                       !.vpc_tags = req.vpc_tags,
                       !.subnet_tags = req.subnet_tags]
    /\ pre' = [ec2 |-> ec2, table |-> table]
    /\ started' = started + 1
    /\ calls' = calls + 1
    /\ UNCHANGED <<ec2, table, made, faults, part, race>>

\* network = ipaddress.ip_network(vpc_cidr, strict=False)
CreateParse ==
    /\ call.pc = "ip_network"
    /\ LET parsed == ip_network(call.vpc_cidr)
       IN call' = IF parsed.ok
                  THEN [call EXCEPT !.network = FormatNetwork(parsed.net),
                                    !.pc = "create_vpc"]
                  ELSE Rollback(call)
    /\ UNCHANGED <<ec2, table, pre, made, started, calls, faults, part, race>>

CreateVpc ==
    /\ call.pc = "create_vpc"
    /\ Remote("create_vpc", ec2.nextId, "create", TRUE,
              DoCreateVpc(ec2, call.network),
              [call EXCEPT !.vpc_id = ec2.nextId, !.pc = "modify_vpc_attribute"],
              Rollback(call))

CreateModifyVpcAttribute ==
    /\ call.pc = "modify_vpc_attribute"
    /\ Remote("modify_vpc_attribute", call.vpc_id, "create",
              CanModifyVpc(ec2, call.vpc_id),
              DoModifyVpc(ec2, call.vpc_id),
              [call EXCEPT !.pc = IF Truthy(call.vpc_tags) THEN "tag_vpc"
                                  ELSE "create_internet_gateway"],
              Rollback(call))

CreateTagVpc ==
    /\ call.pc = "tag_vpc"
    /\ Remote("create_tags", call.vpc_id, "create", CanTag(ec2, call.vpc_id),
              DoTag(ec2, call.vpc_id, Unwrap(call.vpc_tags)),
              [call EXCEPT !.pc = "create_internet_gateway"],
              Rollback(call))

CreateIgw ==
    /\ call.pc = "create_internet_gateway"
    /\ Remote("create_internet_gateway", ec2.nextId, "create", TRUE,
              DoCreateIgw(ec2),
              [call EXCEPT !.igw_id = ec2.nextId, !.pc = "attach_internet_gateway"],
              Rollback(call))

CreateAttachIgw ==
    /\ call.pc = "attach_internet_gateway"
    /\ Remote("attach_internet_gateway", call.igw_id, "create",
              CanAttach(ec2, call.vpc_id, call.igw_id),
              DoAttach(ec2, call.vpc_id, call.igw_id),
              [call EXCEPT !.pc = "create_rt_public"],
              Rollback(call))

CreateRtPublic ==
    /\ call.pc = "create_rt_public"
    /\ Remote("create_route_table", ec2.nextId, "create",
              CanCreateRt(ec2, call.vpc_id),
              DoCreateRt(ec2, call.vpc_id),
              [call EXCEPT !.rt_public_id = ec2.nextId, !.pc = "tag_rt_public"],
              Rollback(call))

CreateTagRtPublic ==
    /\ call.pc = "tag_rt_public"
    /\ Remote("create_tags", call.rt_public_id, "create",
              CanTag(ec2, call.rt_public_id),
              DoTag(ec2, call.rt_public_id,
                    <<[Key |-> "Name", Value |-> Val("Public-RT")]>>),
              [call EXCEPT !.pc = "create_route"],
              Rollback(call))

CreateRoute ==
    /\ call.pc = "create_route"
    /\ Remote("create_route", call.rt_public_id, "create",
              CanCreateRoute(ec2, call.rt_public_id, call.igw_id),
              DoCreateRoute(ec2, call.rt_public_id, DefaultRoute, call.igw_id),
              [call EXCEPT !.pc = "create_rt_private"],
              Rollback(call))

CreateRtPrivate ==
    /\ call.pc = "create_rt_private"
    /\ Remote("create_route_table", ec2.nextId, "create",
              CanCreateRt(ec2, call.vpc_id),
              DoCreateRt(ec2, call.vpc_id),
              [call EXCEPT !.rt_private_id = ec2.nextId, !.pc = "tag_rt_private"],
              Rollback(call))

CreateTagRtPrivate ==
    /\ call.pc = "tag_rt_private"
    /\ Remote("create_tags", call.rt_private_id, "create",
              CanTag(ec2, call.rt_private_id),
              DoTag(ec2, call.rt_private_id,
                    <<[Key |-> "Name", Value |-> Val("Private-RT")]>>),
              [call EXCEPT !.pc = "calculate_subnets"],
              Rollback(call))

PublicCountRoundedUp(public_subnet_count, subnet_count) ==
    Min(IF ~IsNone(public_subnet_count) THEN Unwrap(public_subnet_count)
        ELSE (subnet_count + 1) \div 2,
        subnet_count)

\* public_count, lines 195-196
PublicCount(public_subnet_count, subnet_count) ==
    Min(IF ~IsNone(public_subnet_count) THEN Unwrap(public_subnet_count)
        ELSE subnet_count \div 2,
        subnet_count)

\* public_count and subnet_cidrs; a ValueError of _calculate_subnets is
\* caught like any other exception
CreateCalculate ==
    /\ call.pc = "calculate_subnets"
    /\ LET plan == CalculateSubnets(call.network, call.subnet_count)
           c1 == [call EXCEPT
                    !.public_count = PublicCount(call.public_subnet_count,
                                                 call.subnet_count)]
       IN call' = IF plan.raised THEN Rollback(c1)
                  ELSE [c1 EXCEPT !.subnet_cidrs = plan.subnets, !.idx = 0,
                                  !.pc = IF plan.subnets = <<>> THEN "put_item"
                                         ELSE "create_subnet"]
    /\ UNCHANGED <<ec2, table, pre, made, started, calls, faults, part, race>>

CreateSubnet ==
    /\ call.pc = "create_subnet"
    /\ LET cidr == call.subnet_cidrs[call.idx + 1]
       IN Remote("create_subnet", ec2.nextId, "create",
                 CanCreateSubnet(ec2, call.vpc_id, cidr),
                 DoCreateSubnet(ec2, call.vpc_id, cidr),
                 [call EXCEPT !.subnet_ids = Append(@, ec2.nextId),
                              !.pc = "tag_subnet"],
                 Rollback(call))

\* line 204
SubnetTag(subnet_tags, idx) ==
    IF Truthy(subnet_tags) /\ idx < Len(Unwrap(subnet_tags))
    THEN Unwrap(subnet_tags)[idx + 1]
    ELSE [Key |-> "Name", Value |-> <<"Subnet", idx + 1>>]

CurrentSubnet(c) == c.subnet_ids[Len(c.subnet_ids)]

CreateTagSubnet ==
    /\ call.pc = "tag_subnet"
    /\ Remote("create_tags", CurrentSubnet(call), "create",
              CanTag(ec2, CurrentSubnet(call)),
              DoTag(ec2, CurrentSubnet(call),
                    <<SubnetTag(call.subnet_tags, call.idx)>>),
              [call EXCEPT !.pc = "associate_route_table"],
              Rollback(call))

\* lines 207-208
RouteTableFor(c) ==
    IF c.idx < c.public_count THEN c.rt_public_id ELSE c.rt_private_id

MoreSubnetsNever(c) == FALSE

\* the for loop of line 199 has another subnet to create
MoreSubnets(c) == c.idx + 1 < Len(c.subnet_cidrs)

CreateAssociate ==
    /\ call.pc = "associate_route_table"
    /\ Remote("associate_route_table", CurrentSubnet(call), "create",
              CanAssociate(ec2, CurrentSubnet(call), RouteTableFor(call)),
              DoAssociate(ec2, CurrentSubnet(call), RouteTableFor(call)),
              [call EXCEPT !.idx = @ + 1,
                           !.pc = IF MoreSubnets(call)
                                  THEN "create_subnet" ELSE "put_item"],
              Rollback(call))

ItemOfNoRegion(c) ==
    [VpcId |-> c.vpc_id,
     SubnetIds |-> c.subnet_ids,
     Tags |-> IF Truthy(c.vpc_tags) THEN Unwrap(c.vpc_tags) ELSE <<>>,
     igw |-> c.igw_id,
     RouteTables |-> [Public |-> c.rt_public_id, Private |-> c.rt_private_id]]

\* lines 212-219
ItemOf(c) ==
    [VpcId |-> c.vpc_id,
     Region |-> c.region,
     SubnetIds |-> c.subnet_ids,
     Tags |-> IF Truthy(c.vpc_tags) THEN Unwrap(c.vpc_tags) ELSE <<>>,
     igw |-> c.igw_id,
     RouteTables |-> [Public |-> c.rt_public_id, Private |-> c.rt_private_id]]

CreatePutItem ==
    /\ call.pc = "put_item"
    /\ \E inj \in Choices(TRUE) :
          LET ok == ~inj
              item == ItemOf(call)
              c1 == [call EXCEPT !.log = Append(@,
                        Entry("put_item", call.vpc_id, ok, inj, "create"))]
          IN /\ table' = PutItem(table, item, ok)
             /\ call' = IF ok
                        THEN Finish(c1, "returned",
                                    normalize_vpc_record(Some(item), call.region))
                        ELSE Rollback(c1)
             /\ made' = IF ok THEN Put(made, call.vpc_id, call.subnet_count)
                        ELSE made
             /\ faults' = IF inj THEN faults + 1 ELSE faults
    /\ UNCHANGED <<ec2, pre, started, calls, part, race>>

---------------------------------------------------------------------------
(* VpcManager.get_vpc and VpcManager.list_vpcs *)

GetStart ==
    /\ call.op = "idle"
    /\ \E id \in KnownIds, region \in Regions :
          call' = [Idle EXCEPT !.op = "get", !.pc = "get_item",
                               !.region = region, !.vpc_id = id]
    /\ pre' = [ec2 |-> ec2, table |-> table]
    /\ UNCHANGED <<ec2, table, made, started, calls, faults, part, race>>

GetRead ==
    /\ call.op = "get" /\ call.pc = "get_item"
    /\ call' = Finish([call EXCEPT !.log = Append(@,
                          Entry("get_item", call.vpc_id, TRUE, FALSE, "get"))],
                      "returned",
                      normalize_vpc_record(GetItem(table, call.vpc_id), call.region))
    /\ UNCHANGED <<ec2, table, pre, made, started, calls, faults, part, race>>

ListStart ==
    /\ call.op = "idle"
    /\ \E region \in Regions :
          call' = [Idle EXCEPT !.op = "list", !.pc = "scan", !.region = region]
    /\ pre' = [ec2 |-> ec2, table |-> table]
    /\ UNCHANGED <<ec2, table, made, started, calls, faults, part, race>>

ListScan ==
    /\ call.pc = "scan"
    /\ LET items == Scan(table)
       IN call' = Finish([call EXCEPT !.log = Append(@,
                             Entry("scan", None, TRUE, FALSE, "list"))],
                         "returned",
                         Some([i \in 1..Len(items) |->
                                 NormalizeItem(items[i], call.region)]))
    /\ UNCHANGED <<ec2, table, pre, made, started, calls, faults, part, race>>

---------------------------------------------------------------------------
(* VpcManager.update_vpc *)

\* "if tags:" is false: nothing is called and {vpc_id, updated_tags} returned
UpdateStart ==
    /\ call.op = "idle" /\ calls < MaxCalls
    /\ \E id \in UpdateIds, tags \in UpdateTags, region \in Regions :
          LET c == [Idle EXCEPT !.op = "update", !.pc = "update_create_tags",
                                !.region = region, !.vpc_id = id, !.tags = tags]
          IN call' = IF Truthy(tags) THEN c
                     ELSE Finish(c, "returned",
                                 Some([vpc_id |-> id, updated_tags |-> tags]))
    /\ pre' = [ec2 |-> ec2, table |-> table]
    /\ calls' = calls + 1
    /\ UNCHANGED <<ec2, table, made, started, faults, part, race>>

\* any exception is caught and another one raised in its place
UpdateCreateTags ==
    /\ call.pc = "update_create_tags"
    /\ Remote("create_tags", call.vpc_id, "update", CanTag(ec2, call.vpc_id),
              DoTag(ec2, call.vpc_id, Unwrap(call.tags)),
              [call EXCEPT !.pc = "update_item"],
              Finish(call, "raised", Nothing))

UpdateUpdateItem ==
    /\ call.pc = "update_item"
    /\ \E inj \in Choices(TRUE) :
          LET ok == ~inj
              c1 == [call EXCEPT !.log = Append(@,
                        Entry("update_item", call.vpc_id, ok, inj, "update"))]
          IN /\ table' = UpdateItem(table, call.vpc_id, Unwrap(call.tags), ok)
             /\ call' = IF ok
                        THEN Finish(c1, "returned",
                                    Some([vpc_id |-> call.vpc_id,
                                          updated_tags |-> call.tags]))
                        ELSE Finish(c1, "raised", Nothing)
             /\ faults' = IF inj THEN faults + 1 ELSE faults
    /\ UNCHANGED <<ec2, pre, made, started, calls, part, race>>

---------------------------------------------------------------------------
(* VpcManager.delete_vpc *)

\* line 326 with the test for a main association left out
HasMainNever(associations) == FALSE

\* line 326: any(assoc.get("Main") for assoc in associations)
HasMain(associations) == \E j \in 1..Len(associations) : associations[j].Main

\* the next call of the route-table loops from table rti, association ai on
RECURSIVE TdSeekRt(_, _, _)
TdSeekRt(c, rti, ai) ==
    IF rti > Len(c.rts) THEN <<"td_describe_igws", 0, 0>>
    ELSE LET associations == c.rts[rti].Associations
         IN IF ai <= Len(associations)
            THEN IF ~associations[ai].Main THEN <<"td_disassociate", rti, ai>>
                 ELSE TdSeekRt(c, rti, ai + 1)
            ELSE IF ~HasMain(associations) THEN <<"td_delete_rt", rti, ai>>
                 ELSE TdSeekRt(c, rti + 1, 1)

TdGotoRt(c, rti, ai) ==
    LET p == TdSeekRt(c, rti, ai)
    IN [c EXCEPT !.pc = p[1], !.rti = p[2], !.ai = p[3]]

TdGotoSubnet(c, i) ==
    IF i <= Len(Unwrap(c.record).subnet_ids)
    THEN [c EXCEPT !.pc = "td_subnet", !.ri = i]
    ELSE [c EXCEPT !.pc = "td_describe_rts"]

TdGotoIgwSkipsVpc(c, i) ==
    IF i <= Len(c.gws) THEN [c EXCEPT !.pc = "td_detach", !.gi = i]
    ELSE [c EXCEPT !.pc = "td_delete_item"]

\* the gateway loop of lines 337-348, then delete_vpc
TdGotoIgw(c, i) ==
    IF i <= Len(c.gws) THEN [c EXCEPT !.pc = "td_detach", !.gi = i]
    ELSE [c EXCEPT !.pc = "td_delete_vpc"]

DeleteStart ==
    /\ call.op = "idle" /\ calls < MaxCalls
    /\ \E id \in KnownIds, region \in Regions :
          call' = [Idle EXCEPT !.op = "delete", !.pc = "td_get_item",
                               !.region = region, !.vpc_id = id]
    /\ pre' = [ec2 |-> ec2, table |-> table]
    /\ calls' = calls + 1
    /\ UNCHANGED <<ec2, table, made, started, faults, part, race>>

\* record = await self.get_vpc(vpc_id); None is returned when there is none
DeleteGet ==
    /\ call.pc = "td_get_item"
    /\ LET record == normalize_vpc_record(GetItem(table, call.vpc_id), call.region)
           c1 == [call EXCEPT !.log = Append(@,
                     Entry("get_item", call.vpc_id, TRUE, FALSE, "delete"))]
       IN call' = IF IsNone(record) THEN Finish(c1, "returned", Nothing)
                  ELSE TdGotoSubnet([c1 EXCEPT !.record = record], 1)
    /\ UNCHANGED <<ec2, table, pre, made, started, calls, faults, part, race>>

DeleteSubnet ==
    /\ call.pc = "td_subnet"
    /\ LET sid == Unwrap(call.record).subnet_ids[call.ri]
           next == TdGotoSubnet(call, call.ri + 1)
       IN Remote("delete_subnet", sid, "delete", CanDeleteSubnet(ec2, sid),
                 DoDeleteSubnet(ec2, sid), next, next)

\* a describe that raises skips the route tables altogether
DeleteDescribeRts ==
    /\ call.pc = "td_describe_rts"
    /\ Remote("describe_route_tables", call.vpc_id, "delete", TRUE, ec2,
              TdGotoRt([call EXCEPT !.rts = DescribeRouteTables(ec2, call.vpc_id)],
                       1, 1),
              [call EXCEPT !.pc = "td_describe_igws"])

DeleteDisassociate ==
    /\ call.pc = "td_disassociate"
    /\ LET a == call.rts[call.rti].Associations[call.ai].RouteTableAssociationId
           next == TdGotoRt(call, call.rti, call.ai + 1)
       IN Remote("disassociate_route_table", a, "delete", CanDisassociate(ec2, a),
                 DoDisassociate(ec2, a), next, next)

DeleteRouteTable ==
    /\ call.pc = "td_delete_rt"
    /\ LET rt == call.rts[call.rti].RouteTableId
           next == TdGotoRt(call, call.rti + 1, 1)
       IN Remote("delete_route_table", rt, "delete", CanDeleteRt(ec2, rt),
                 DoDeleteRt(ec2, rt), next, next)

DeleteDescribeIgws ==
    /\ call.pc = "td_describe_igws"
    /\ Remote("describe_internet_gateways", call.vpc_id, "delete", TRUE, ec2,
              TdGotoIgw([call EXCEPT !.gws =
                            DescribeInternetGateways(ec2, call.vpc_id)], 1),
              [call EXCEPT !.pc = "td_delete_vpc"])

\* detach and delete have a try each: the delete is attempted either way
DeleteDetachIgw ==
    /\ call.pc = "td_detach"
    /\ LET g == call.gws[call.gi]
           next == [call EXCEPT !.pc = "td_delete_igw"]
       IN Remote("detach_internet_gateway", g, "delete",
                 CanDetach(ec2, g, call.vpc_id),
                 DoDetach(ec2, g, call.vpc_id), next, next)

DeleteIgw ==
    /\ call.pc = "td_delete_igw"
    /\ LET g == call.gws[call.gi]
           next == TdGotoIgw(call, call.gi + 1)
       IN Remote("delete_internet_gateway", g, "delete", CanDeleteIgw(ec2, g),
                 DoDeleteIgw(ec2, g), next, next)

AfterDeleteVpcStrict(c, ok) ==
    IF ok THEN [c EXCEPT !.pc = "td_delete_item"]
    ELSE Finish(c, "returned", Nothing)

\* lines 352-358: the record is removed whether or not the VPC was deleted
AfterDeleteVpc(c, ok) == [c EXCEPT !.pc = "td_delete_item"]

DeleteVpc ==
    /\ call.pc = "td_delete_vpc"
    /\ Remote("delete_vpc", call.vpc_id, "delete",
              CanDeleteVpc(ec2, call.vpc_id),
              DoDeleteVpc(ec2, call.vpc_id),
              AfterDeleteVpc(call, TRUE), AfterDeleteVpc(call, FALSE))

\* a delete_item that raises is logged; the confirmation is returned anyway
DeleteDeleteItem ==
    /\ call.pc = "td_delete_item"
    /\ \E inj \in Choices(TRUE) :
          LET ok == ~inj
              c1 == [call EXCEPT !.log = Append(@,
                        Entry("delete_item", call.vpc_id, ok, inj, "delete"))]
          IN /\ table' = DeleteItem(table, call.vpc_id, ok)
             /\ call' = Finish(c1, "returned",
                               Some([message |-> <<"deleted", call.vpc_id>>]))
             /\ faults' = IF inj THEN faults + 1 ELSE faults
    /\ UNCHANGED <<ec2, pre, made, started, calls, part, race>>

---------------------------------------------------------------------------
(* The API layer (main.py): the status a finished call is answered with *)

HttpStatus(c) ==
    CASE c.op = "delete" -> IF IsNone(c.result) THEN 404 ELSE 200
      [] c.op = "get" -> IF IsNone(c.result) THEN 404 ELSE 200
      [] c.op = "update" -> IF c.outcome = "raised" THEN 500 ELSE 200
      [] OTHER -> 200

NoPre == [ec2 |-> Ec2Init, table |-> EmptyFn]

\* no pair of update_vpc calls in flight
RaceOff ==
    [pc |-> "off", vpc_id |-> None, tags |-> <<Nothing, Nothing>>,
     at |-> <<"off", "off">>, outcome |-> <<"none", "none">>,
     before |-> EmptyFn,                     \* the store when the pair started
     log |-> <<>>]                           \* the remote and store calls issued

\* the caller has its answer
Return ==
    /\ call.pc = "done"
    /\ call' = Idle
    /\ pre' = NoPre
    /\ UNCHANGED <<ec2, table, made, started, calls, faults, part, race>>

---------------------------------------------------------------------------
(* The harness of the partitioner *)

PartOff == [pc |-> "off", vpc_cidr |-> <<>>, count |-> 0,
            out |-> [raised |-> FALSE, subnets |-> <<>>, prefix |-> 0]]

PartCidrs ==
    { <<10, 0, 0, 0, 20>>, <<10, 1, 2, 3, 20>>, <<10, 0, 0, 0, 8>>,
      <<10, 0, 0, 0, 29>>, <<10, 0, 0, 0, 30>>, <<10, 0, 0, 5, 31>>,
      <<10, 0, 0, 1, 32>>, <<10, 0, 0, 9>>, <<127, 255, 255, 252, 30>>,
      <<256, 0, 0, 0, 16>>, <<10, 0, 0, 0, 33>>, CidrBad }

PartCounts == (-1)..MaxCount

InitPart ==
    /\ ec2 = Ec2Init /\ table = EmptyFn /\ call = Idle /\ pre = NoPre
    /\ made = EmptyFn /\ started = 0 /\ calls = 0 /\ faults = 0
    /\ race = RaceOff
    /\ part \in {[PartOff EXCEPT !.pc = "ready", !.vpc_cidr = c, !.count = n] :
                    c \in PartCidrs, n \in PartCounts}

PartCalculate ==
    /\ part.pc = "ready"
    /\ part' = [part EXCEPT !.pc = "done",
                            !.out = CalculateSubnets(part.vpc_cidr, part.count)]
    /\ UNCHANGED <<ec2, table, call, pre, made, started, calls, faults, race>>

NextPart == PartCalculate

SpecPart == InitPart /\ [][NextPart]_vars

---------------------------------------------------------------------------
(* The manager, one call at a time *)

Init ==
    /\ ec2 = Ec2Init /\ table = EmptyFn /\ call = Idle /\ pre = NoPre
    /\ made = EmptyFn /\ started = 0 /\ calls = 0 /\ faults = 0
    /\ part = PartOff /\ race = RaceOff

Next ==
    \/ CreateStart \/ CreateParse \/ CreateVpc \/ CreateModifyVpcAttribute
    \/ CreateTagVpc \/ CreateIgw \/ CreateAttachIgw \/ CreateRtPublic
    \/ CreateTagRtPublic \/ CreateRoute \/ CreateRtPrivate \/ CreateTagRtPrivate
    \/ CreateCalculate \/ CreateSubnet \/ CreateTagSubnet \/ CreateAssociate
    \/ CreatePutItem
    \/ RbDeleteSubnet \/ RbDeleteRouteTable \/ RbDetachIgw \/ RbDeleteIgw
    \/ RbDeleteVpc
    \/ GetStart \/ GetRead \/ ListStart \/ ListScan
    \/ UpdateStart \/ UpdateCreateTags \/ UpdateUpdateItem
    \/ DeleteStart \/ DeleteGet \/ DeleteSubnet \/ DeleteDescribeRts
    \/ DeleteDisassociate \/ DeleteRouteTable \/ DeleteDescribeIgws
    \/ DeleteDetachIgw \/ DeleteIgw \/ DeleteVpc \/ DeleteDeleteItem
    \/ Return

Spec == Init /\ [][Next]_vars

---------------------------------------------------------------------------
(* One provision of RollbackSubnets subnets, followed through its rollback *)

RollbackRequests ==
    {Req(CidrA, RollbackSubnets, Some(1), Some(<<TagName>>), Nothing)}

CreateStartRollback ==
    /\ call.op = "idle" /\ started = 0
    /\ \E req \in RollbackRequests, region \in Regions :
          call' = [Idle EXCEPT !.op = "create", !.pc = "ip_network",
                       !.region = region,
                       !.vpc_cidr = req.vpc_cidr,
                       !.subnet_count = req.subnet_count,
                       !.public_subnet_count = req.public_subnet_count,
                       !.vpc_tags = req.vpc_tags,
                       !.subnet_tags = req.subnet_tags]
    /\ pre' = [ec2 |-> ec2, table |-> table]
    /\ started' = started + 1
    /\ calls' = calls + 1
    /\ UNCHANGED <<ec2, table, made, faults, part, race>>

NextRollback ==
    \/ CreateStartRollback \/ CreateParse \/ CreateVpc \/ CreateModifyVpcAttribute
    \/ CreateTagVpc \/ CreateIgw \/ CreateAttachIgw \/ CreateRtPublic
    \/ CreateTagRtPublic \/ CreateRoute \/ CreateRtPrivate \/ CreateTagRtPrivate
    \/ CreateCalculate \/ CreateSubnet \/ CreateTagSubnet \/ CreateAssociate
    \/ CreatePutItem
    \/ RbDeleteSubnet \/ RbDeleteRouteTable \/ RbDetachIgw \/ RbDeleteIgw
    \/ RbDeleteVpc
    \/ Return

SpecRollback == Init /\ [][NextRollback]_vars

---------------------------------------------------------------------------
(* Two update_vpc calls at once: the API serves requests in separate       *)
(* invocations, each with a VpcManager of its own, and nothing but the     *)
(* provider and the table is shared between them                           *)

RaceTags == UpdateTags \cup {Some(<<TagEnv, TagName>>)}

RaceEntry(p, api, ok) == [p |-> p, api |-> api, ok |-> ok]

\* two requests for the same id are accepted; "if tags:" of each
RaceStart ==
    /\ call.op = "idle" /\ race.pc = "off" /\ calls < MaxCalls
    /\ \E id \in KnownIds, t1 \in RaceTags, t2 \in RaceTags :
          LET tags == <<t1, t2>> IN
          race' = [RaceOff EXCEPT
                      !.pc = "on", !.vpc_id = id, !.tags = tags,
                      !.at = [p \in {1, 2} |->
                                IF Truthy(tags[p]) THEN "update_create_tags"
                                ELSE "done"],
                      !.outcome = [p \in {1, 2} |->
                                     IF Truthy(tags[p]) THEN "none"
                                     ELSE "returned"],
                      !.before = table]
    /\ calls' = calls + 1
    /\ UNCHANGED <<ec2, table, call, pre, made, started, faults, part>>

\* ec2.create_tags of call p
RaceCreateTags(p) ==
    /\ race.pc = "on" /\ race.at[p] = "update_create_tags"
    /\ \E inj \in Choices(CanTag(ec2, race.vpc_id)) :
          LET ok == CanTag(ec2, race.vpc_id) /\ ~inj IN
          /\ ec2' = IF ok THEN DoTag(ec2, race.vpc_id, Unwrap(race.tags[p]))
                    ELSE ec2
          /\ race' = [race EXCEPT
                         !.at[p] = IF ok THEN "update_item" ELSE "done",
                         !.outcome[p] = IF ok THEN "none" ELSE "raised",
                         !.log = Append(@, RaceEntry(p, "create_tags", ok))]
          /\ faults' = IF inj THEN faults + 1 ELSE faults
    /\ UNCHANGED <<table, call, pre, made, started, calls, part>>

\* table.update_item of call p, and its return
RaceUpdateItem(p) ==
    /\ race.pc = "on" /\ race.at[p] = "update_item"
    /\ \E inj \in Choices(TRUE) :
          LET ok == ~inj IN
          /\ table' = UpdateItem(table, race.vpc_id, Unwrap(race.tags[p]), ok)
          /\ race' = [race EXCEPT
                         !.at[p] = "done",
                         !.outcome[p] = IF ok THEN "returned" ELSE "raised",
                         !.log = Append(@, RaceEntry(p, "update_item", ok))]
          /\ faults' = IF inj THEN faults + 1 ELSE faults
    /\ UNCHANGED <<ec2, call, pre, made, started, calls, part>>

\* both callers have their answers
RaceReturn ==
    /\ race.pc = "on" /\ race.at = <<"done", "done">>
    /\ race' = RaceOff
    /\ UNCHANGED <<ec2, table, call, pre, made, started, calls, faults, part>>

NextRace ==
    \/ CreateStartRollback \/ CreateParse \/ CreateVpc \/ CreateModifyVpcAttribute
    \/ CreateTagVpc \/ CreateIgw \/ CreateAttachIgw \/ CreateRtPublic
    \/ CreateTagRtPublic \/ CreateRoute \/ CreateRtPrivate \/ CreateTagRtPrivate
    \/ CreateCalculate \/ CreateSubnet \/ CreateTagSubnet \/ CreateAssociate
    \/ CreatePutItem
    \/ RbDeleteSubnet \/ RbDeleteRouteTable \/ RbDetachIgw \/ RbDeleteIgw
    \/ RbDeleteVpc
    \/ Return
    \/ RaceStart \/ RaceCreateTags(1) \/ RaceCreateTags(2)
    \/ RaceUpdateItem(1) \/ RaceUpdateItem(2) \/ RaceReturn

SpecRace == Init /\ [][NextRace]_vars

---------------------------------------------------------------------------
(* Provisions run to their end: create_vpc has no await that waits for      *)
(* another task, so once called it takes its next step whenever the remote *)
(* or store call it is in returns or raises                                *)

ProvisionStep ==
    \/ CreateParse \/ CreateVpc \/ CreateModifyVpcAttribute
    \/ CreateTagVpc \/ CreateIgw \/ CreateAttachIgw \/ CreateRtPublic
    \/ CreateTagRtPublic \/ CreateRoute \/ CreateRtPrivate \/ CreateTagRtPrivate
    \/ CreateCalculate \/ CreateSubnet \/ CreateTagSubnet \/ CreateAssociate
    \/ CreatePutItem
    \/ RbDeleteSubnet \/ RbDeleteRouteTable \/ RbDetachIgw \/ RbDeleteIgw
    \/ RbDeleteVpc

\* the one create_vpc call of a behaviour, with any of the requests
CreateStartOnce ==
    /\ call.op = "idle" /\ started = 0
    /\ \E req \in CreateRequests, region \in Regions :
          call' = [Idle EXCEPT !.op = "create", !.pc = "ip_network",
                       !.region = region,
                       !.vpc_cidr = req.vpc_cidr,
                       !.subnet_count = req.subnet_count,
                       !.public_subnet_count = req.public_subnet_count,
                       !.vpc_tags = req.vpc_tags,
                       !.subnet_tags = req.subnet_tags]
    /\ pre' = [ec2 |-> ec2, table |-> table]
    /\ started' = started + 1
    /\ calls' = calls + 1
    /\ UNCHANGED <<ec2, table, made, faults, part, race>>

NextTerminate == CreateStartOnce \/ ProvisionStep \/ Return

SpecTerminate == Init /\ [][NextTerminate]_vars /\ WF_vars(ProvisionStep)

---------------------------------------------------------------------------
(* Properties *)

Done(op) == call.pc = "done" /\ call.op = op

\* create_vpc has returned None
CreateFailed == Done("create") /\ call.outcome = "returned" /\ IsNone(call.result)

\* create_vpc has returned the record
CreateSucceeded == Done("create") /\ ~IsNone(call.result)

\* the ids the provider handed out during the call in flight
Allocated == pre.ec2.nextId .. (ec2.nextId - 1)

\* the positions of the call's log that satisfy P
Logged(P(_)) == {i \in 1..Len(call.log) : P(call.log[i])}

StoreApis == {"get_item", "scan", "put_item", "update_item", "delete_item"}
StoreWrites == {"put_item", "update_item", "delete_item"}
IsRemote(e) == e.api \notin StoreApis
IsStoreWrite(e) == e.api \in StoreWrites
IsFailed(e) == ~e.ok
IsInjected(e) == e.inj

\* get_vpc(id) would return None
GetAbsent(id) == IsNone(normalize_vpc_record(GetItem(table, id), call.region))

\* C1: when create_vpc has returned None, whatever step failed, the store is
\* what it was when the call started, and no id handed out during the call
\* has a record.
C1_ProvisionAtomicity ==
    CreateFailed =>
        /\ table = pre.table
        /\ \A id \in Allocated : GetAbsent(id)

\* C1's case: a store that held a record, and a create_vpc that failed at its
\* last step, the store write, after every resource was created.
C1_Witness ==
    /\ CreateFailed
    /\ DOMAIN pre.table # {}
    /\ Len(call.subnet_ids) = MaxSubnets
    /\ \E i \in 1..Len(call.log) :
          call.log[i].api = "put_item" /\ ~call.log[i].ok

\* C2 (as claimed): when exactly one call of the create sequence failed and
\* the provider served every call of the rollback that it could serve, nothing
\* that the call created exists once it has returned.
C2_NoOrphans ==
    ( /\ Done("create")
      /\ Cardinality(Logged(IsInjected)) = 1
      /\ \A i \in Logged(IsInjected) : call.log[i].ph = "create" )
    => Allocated \cap Resources(ec2) = {}

\* C3 (as claimed): between calls, an id has a record exactly if its VPC
\* exists and was built by a create_vpc that returned its record.
C3_RecordIffVpc ==
    call.op = "idle" =>
        \A id \in 1..ec2.nextId :
            id \in DOMAIN table <=> (id \in DOMAIN ec2.vpcs /\ id \in DOMAIN made)

\* C4 (as claimed): between calls, every record holds both route tables and
\* as many subnet ids as the create_vpc that made it was asked for.
C4_RecordWellFormed ==
    call.pc \in {"idle", "done"} =>
        \A id \in DOMAIN table :
            /\ HasAttr(table[id], "RouteTables")
            /\ table[id].RouteTables.Public # None
            /\ table[id].RouteTables.Private # None
            /\ HasAttr(table[id], "SubnetIds")
            /\ id \in DOMAIN made
            /\ Len(table[id].SubnetIds) = made[id]

\* the store's delete_item was served
StoreDeleteServed ==
    \A i \in 1..Len(call.log) : call.log[i].api = "delete_item" => call.log[i].ok

C6_TeardownNotFound ==
    ( Done("delete") /\ call.vpc_id \notin DOMAIN pre.table )
    => /\ call.outcome = "returned" /\ IsNone(call.result)
       /\ HttpStatus(call) = 404
       /\ Logged(IsRemote) = {}
       /\ Logged(IsStoreWrite) = {}
       /\ ec2 = pre.ec2
       /\ table = pre.table

\* C6's case: the VPC exists at the provider and another id has a record,
\* but the id named has none.
C6_Witness ==
    /\ Done("delete")
    /\ call.vpc_id \notin DOMAIN pre.table
    /\ call.vpc_id \in DOMAIN ec2.vpcs
    /\ DOMAIN table # {}

\* what a CIDR text says, read independently of ip_network
IsNetworkText(t) ==
    /\ Len(t) \in {4, 5}
    /\ \A i \in 1..4 : t[i] >= 0 /\ t[i] <= 255
    /\ Len(t) = 5 => (t[5] >= 0 /\ t[5] <= 32)
TextPrefix(t) == IF Len(t) = 5 THEN t[5] ELSE 32
TextSize(t) == Pow2(32 - TextPrefix(t))
TextAddr(t) == t[1] * 16777216 + t[2] * 65536 + t[3] * 256 + t[4]
\* the first and the last address of the block a text names
TextLo(t) == TextAddr(t) - (TextAddr(t) % TextSize(t))
TextHi(t) == TextLo(t) + (TextSize(t) - 1)

\* the least p >= the base prefix with 2^(p - base prefix) >= count
MinimalPrefix(t, count) ==
    CHOOSE p \in TextPrefix(t)..32 :
        /\ Pow2(p - TextPrefix(t)) >= count
        /\ \A q \in TextPrefix(t)..(p - 1) : Pow2(q - TextPrefix(t)) < count

PartInRange ==
    /\ part.pc = "done"
    /\ IsNetworkText(part.vpc_cidr)
    /\ part.count >= 1 /\ part.count <= TextSize(part.vpc_cidr)

\* what C7 says of the blocks, but for how they relate to the base network
PartitionShape ==
    LET base == part.vpc_cidr
        out == part.out.subnets
        p == MinimalPrefix(base, part.count)
    IN /\ ~part.out.raised
       /\ Len(out) = part.count
       /\ \A i \in 1..Len(out) :
             /\ IsNetworkText(out[i]) /\ Len(out[i]) = 5
             /\ TextPrefix(out[i]) = p
             /\ TextAddr(out[i]) = TextLo(out[i])
             /\ TextLo(base) <= TextLo(out[i]) /\ TextHi(out[i]) <= TextHi(base)
       /\ \A i, j \in 1..Len(out) : i < j => TextHi(out[i]) < TextLo(out[j])
       /\ (base = <<10, 0, 0, 0, 20>> /\ part.count = 4) =>
             out = << <<10, 0, 0, 0, 22>>, <<10, 0, 4, 0, 22>>,
                      <<10, 0, 8, 0, 22>>, <<10, 0, 12, 0, 22>> >>

\* a block is a proper part of the base network
ProperPart(t, base) == TextLo(t) > TextLo(base) \/ TextHi(t) < TextHi(base)

\* C7 (as claimed): for a valid base and 1 <= count <= 2^(32 - base prefix),
\* _calculate_subnets returns count blocks of the minimal prefix, inside the
\* base network, ascending, pairwise disjoint, and each a strict sub-block of
\* the base network.
C7_PartitionerStrict ==
    PartInRange =>
        /\ PartitionShape
        /\ \A i \in 1..Len(part.out.subnets) :
              ProperPart(part.out.subnets[i], part.vpc_cidr)

\* C7 (amended): the same, the blocks being strict sub-blocks exactly when
\* count >= 2; for count = 1 the one block returned is the base network.
C7_Partitioner ==
    PartInRange =>
        /\ PartitionShape
        /\ \A i \in 1..Len(part.out.subnets) :
              ProperPart(part.out.subnets[i], part.vpc_cidr) <=> part.count >= 2

\* C7's case: 10.0.0.0/20 cut in four.
C7_Witness ==
    /\ part.pc = "done"
    /\ part.vpc_cidr = <<10, 0, 0, 0, 20>> /\ part.count = 4
    /\ Len(part.out.subnets) = 4
    /\ part.out.subnets[4] = <<10, 0, 12, 0, 22>>

\* C8: for a valid base, _calculate_subnets raises exactly when
\* count > 2^(32 - base prefix), and then returns no block.
C8_CapacityError ==
    ( part.pc = "done" /\ IsNetworkText(part.vpc_cidr) )
    => /\ part.out.raised <=> part.count > TextSize(part.vpc_cidr)
       /\ part.out.raised => part.out.subnets = <<>>

\* C8's cases: a /31 is asked for three blocks and raises; it is asked for two
\* and does not -- seen here on the first.
C8_Witness ==
    /\ part.pc = "done"
    /\ part.vpc_cidr = <<10, 0, 0, 5, 31>> /\ part.count = 3
    /\ part.out.raised

\* min(k if given else floor(n/2), n), computed from the request
EffectivePublicCount ==
    LET n == call.subnet_count
        k == IF call.public_subnet_count = <<>> THEN n \div 2
             ELSE call.public_subnet_count[1]
    IN IF k < n THEN k ELSE n

\* C9: when create_vpc has returned the record, the subnet at index i
\* (0-based) is associated with one route table: the public one if
\* i < min(k if given else floor(n/2), n), the private one otherwise.
C9_PublicPrivate ==
    CreateSucceeded =>
        /\ Len(call.subnet_ids) = call.subnet_count
        /\ call.rt_public_id # call.rt_private_id
        /\ \A i \in 0..(Len(call.subnet_ids) - 1) :
              LET sid == call.subnet_ids[i + 1]
              IN /\ sid \in DOMAIN ec2.assoc
                 /\ ec2.assoc[sid] = IF i < EffectivePublicCount
                                     THEN call.rt_public_id
                                     ELSE call.rt_private_id

\* C9's case: two subnets and no public count given.
C9_Witness ==
    /\ CreateSucceeded
    /\ call.subnet_count = 2 /\ call.public_subnet_count = <<>>
    /\ ec2.assoc[call.subnet_ids[1]] = call.rt_public_id
    /\ ec2.assoc[call.subnet_ids[2]] = call.rt_private_id

\* C10: create_vpc of a text that is no network returns None having called
\* the provider not once (no create, delete or detach) and written nothing
\* to the store.
C10_InvalidCidr ==
    ( Done("create") /\ ~IsNetworkText(call.vpc_cidr) )
    => /\ call.outcome = "returned" /\ IsNone(call.result)
       /\ Logged(IsRemote) = {}
       /\ Logged(IsStoreWrite) = {}
       /\ ec2 = pre.ec2
       /\ table = pre.table

\* C10's case: "X.X.X.X/16", while an earlier VPC and its record exist.
C10_Witness ==
    /\ Done("create")
    /\ call.vpc_cidr = CidrBad
    /\ DOMAIN ec2.vpcs # {} /\ DOMAIN table # {}

\* the capacity of the base network a text names is below the count asked for
OverCapacity(c) ==
    IsNetworkText(c.vpc_cidr) /\ c.subnet_count > TextSize(c.vpc_cidr)

\* C11 (as claimed): a create_vpc of a valid base CIDR and a subnet count the
\* base network cannot hold calls the provider at no point of the call.
C11_CapacityNoRemoteCall ==
    ( call.op = "create" /\ OverCapacity(call) ) => Logged(IsRemote) = {}

\* a validation or capacity error ended the call: the text is no network, or
\* the base network cannot hold the count and no remote call failed before
\* _calculate_subnets was reached
ValidationOrCapacityFailure ==
    /\ Done("create")
    /\ \/ ~IsNetworkText(call.vpc_cidr)
       \/ /\ OverCapacity(call)
          /\ \A i \in 1..Len(call.log) :
                call.log[i].ph = "create" => call.log[i].ok

\* a call of the create sequence failed
RemoteFailure ==
    /\ Done("create")
    /\ \E i \in 1..Len(call.log) : call.log[i].ph = "create" /\ ~call.log[i].ok

\* C12 (as claimed): a create_vpc that fails on a malformed base CIDR or on
\* capacity hands its caller the error: an answer that differs from None, the
\* answer to a provision that failed on a remote call and was rolled back.
C12_ErrorsPropagate ==
    ValidationOrCapacityFailure => ~CreateFailed

\* C12 (amended): the error does not reach the caller; it is caught, the
\* rollback runs, and create_vpc returns None, as it does when a remote call
\* failed.
C12_ErrorsSwallowed ==
    ( ValidationOrCapacityFailure \/ RemoteFailure ) => CreateFailed

\* C12's case: a /28 asked for 17 subnets; every remote call was served, the
\* rollback has run and None is returned.
C12_Witness ==
    /\ ValidationOrCapacityFailure
    /\ call.vpc_cidr = CidrSmall /\ call.subnet_count = BigCount
    /\ \E i \in 1..Len(call.log) : call.log[i].ph = "rollback"
    /\ CreateFailed

\* update_vpc was given tags that are neither None nor empty
GivenTags == call.op = "update" /\ call.tags \notin {Nothing, Some(<<>>)}

\* update_vpc has returned {vpc_id, updated_tags}
UpdateAnswered ==
    /\ Done("update") /\ call.outcome = "returned"
    /\ call.result = Some([vpc_id |-> call.vpc_id, updated_tags |-> call.tags])

C14_UpdateUnknownFails ==
    ( Done("update") /\ GivenTags /\ call.vpc_id \notin DOMAIN pre.ec2.vpcs )
    => /\ call.outcome = "raised"
       /\ HttpStatus(call) = 500
       /\ table = pre.table

\* C15: update_vpc with tags None or empty, of any id, calls neither the
\* provider nor the store, leaves both as they were, does not raise and
\* returns the id with the tags it was given (none).
C15_UpdateNoTagsNoOp ==
    ( Done("update") /\ call.tags \in {Nothing, Some(<<>>)} )
    => /\ UpdateAnswered
       /\ HttpStatus(call) = 200
       /\ call.log = <<>>
       /\ ec2 = pre.ec2
       /\ table = pre.table

\* C15's case: an empty list of tags for an id that names nothing, while a
\* VPC and its record exist.
C15_Witness ==
    /\ Done("update")
    /\ call.tags = Some(<<>>)
    /\ call.vpc_id \notin Resources(ec2) \cup DOMAIN table
    /\ DOMAIN ec2.vpcs # {} /\ DOMAIN table # {}
    /\ call.result = Some([vpc_id |-> call.vpc_id, updated_tags |-> Some(<<>>)])

\* _rollback_vpc is running, or has run and create_vpc has returned
RollbackPcs == {"rb_subnet", "rb_rt", "rb_detach", "rb_delete_igw", "rb_vpc"}
InRollback == call.op = "create" /\ call.pc \in RollbackPcs
RollbackOver == Done("create") /\ IsNone(call.result)

\* the calls _rollback_vpc has issued, in the order it issued them
RollbackLog == SelectSeq(call.log, LAMBDA e : e.ph = "rollback")

\* the rollback has called api for id
Attempted(api, id) ==
    \E i \in 1..Len(RollbackLog) :
        RollbackLog[i].api = api /\ RollbackLog[i].id = id

\* C16: whichever calls of _rollback_vpc fail, it returns normally (create_vpc
\* returns None) having called delete_subnet for every subnet id it was given,
\* delete_route_table for every route-table id that is not None, the gateway
\* removal (detach first) if gateway id and VPC id are both there, and
\* delete_vpc if the VPC id is there.
C16_RollbackBestEffort ==
    RollbackOver =>
        /\ call.outcome = "returned"
        /\ \A k \in 1..Len(call.subnet_ids) :
              Attempted("delete_subnet", call.subnet_ids[k])
        /\ call.rt_public_id # None =>
              Attempted("delete_route_table", call.rt_public_id)
        /\ call.rt_private_id # None =>
              Attempted("delete_route_table", call.rt_private_id)
        /\ (call.igw_id # None /\ call.vpc_id # None) =>
              Attempted("detach_internet_gateway", call.igw_id)
        /\ call.vpc_id # None => Attempted("delete_vpc", call.vpc_id)

\* C16's case: the first subnet's deletion failed, and the second subnet,
\* both route tables, the gateway and the VPC were attempted after it.
C16_Witness ==
    /\ CreateFailed
    /\ Len(call.subnet_ids) >= 2
    /\ Len(RollbackLog) >= 6
    /\ RollbackLog[1].api = "delete_subnet" /\ ~RollbackLog[1].ok
    /\ RollbackLog[2].api = "delete_subnet"
    /\ Attempted("delete_route_table", call.rt_private_id)
    /\ Attempted("detach_internet_gateway", call.igw_id)
    /\ RollbackLog[Len(RollbackLog)].api = "delete_vpc"

\* the ids of the resources the create sequence has created
CreateApis ==
    {"create_vpc", "create_internet_gateway", "create_route_table", "create_subnet"}
CreatedIds ==
    {call.log[i].id : i \in {j \in 1..Len(call.log) :
        /\ call.log[j].ph = "create" /\ call.log[j].ok
        /\ call.log[j].api \in CreateApis}}

\* the ids _rollback_vpc was called with
GivenIds ==
    ({call.vpc_id, call.igw_id, call.rt_public_id, call.rt_private_id} \ {None})
        \cup {call.subnet_ids[k] : k \in 1..Len(call.subnet_ids)}

\* only the creation of the subnet at index 2 failed
FailedAtSubnetTwo ==
    /\ call.subnet_count = 4
    /\ \E i \in 1..Len(call.log) :
          /\ call.log[i].api = "create_subnet" /\ ~call.log[i].ok
          /\ Cardinality({j \in 1..i : call.log[j].api = "create_subnet"}) = 3
    /\ Cardinality(Logged(IsInjected)) = 1

\* C19: while and after _rollback_vpc runs, the ids it was called with are the
\* ids of the resources whose create call was served, those of a resource
\* whose tagging, attaching or associating failed included, and no other;
\* when the creation of subnet 2 of 4 fails, it deletes subnets 0 and 1, both
\* route tables, the gateway and the VPC.
C19_RollbackGetsAllocated ==
    /\ (InRollback \/ CreateFailed) =>
          /\ GivenIds = CreatedIds
          /\ GivenIds = Allocated
    /\ (CreateFailed /\ FailedAtSubnetTwo) =>
          /\ Len(call.subnet_ids) = 2
          /\ [i \in 1..Len(RollbackLog) |->
                <<RollbackLog[i].api, RollbackLog[i].id, RollbackLog[i].ok>>]
             = << <<"delete_subnet", call.subnet_ids[1], TRUE>>,
                  <<"delete_subnet", call.subnet_ids[2], TRUE>>,
                  <<"delete_route_table", call.rt_public_id, TRUE>>,
                  <<"delete_route_table", call.rt_private_id, TRUE>>,
                  <<"detach_internet_gateway", call.igw_id, TRUE>>,
                  <<"delete_internet_gateway", call.igw_id, TRUE>>,
                  <<"delete_vpc", call.vpc_id, TRUE>> >>
          /\ Resources(ec2) = Resources(pre.ec2)
          /\ table = pre.table

\* C19's case: the creation of subnet 2 of 4 failed and the rollback is over.
C19_Witness ==
    /\ CreateFailed /\ FailedAtSubnetTwo
    /\ Len(RollbackLog) = 7
    /\ Len(call.subnet_ids) = 2

\* the place of a call in the order of _rollback_vpc
Rank(api) ==
    CASE api = "delete_subnet" -> 1
      [] api = "delete_route_table" -> 2
      [] api = "detach_internet_gateway" -> 3
      [] api = "delete_internet_gateway" -> 4
      [] api = "delete_vpc" -> 5
      [] OTHER -> 0

\* C20: in every rollback the subnet deletions come before the route-table
\* deletions, these before the gateway detach, the detach before the gateway
\* delete, and delete_vpc comes last; the gateway is touched only if gateway
\* id and VPC id are both there, and no call is made for an id that is None.
C20_RollbackOrder ==
    /\ \A i \in 1..Len(RollbackLog) :
          /\ Rank(RollbackLog[i].api) >= 1
          /\ RollbackLog[i].id # None
          /\ Rank(RollbackLog[i].api) \in {3, 4} =>
                (call.igw_id # None /\ call.vpc_id # None)
    /\ \A i, j \in 1..Len(RollbackLog) :
          i < j =>
             /\ Rank(RollbackLog[i].api) <= Rank(RollbackLog[j].api)
             /\ Rank(RollbackLog[i].api) >= 3 =>
                   Rank(RollbackLog[i].api) < Rank(RollbackLog[j].api)

\* C20's case: a rollback that made every kind of call, the gateway delete
\* after the detach and delete_vpc last.
C20_Witness ==
    /\ CreateFailed
    /\ {Rank(RollbackLog[i].api) : i \in 1..Len(RollbackLog)} = 1..5
    /\ RollbackLog[Len(RollbackLog)].api = "delete_vpc"
    /\ Len(call.subnet_ids) >= 2

\* what get_vpc(id) returns to a manager made for region r
GetVpc(id, r) == normalize_vpc_record(GetItem(table, id), r)

\* the regions a reading manager may be made for
ReaderRegions == Regions \cup {"ap-south-1"}

\* C17: when create_vpc has returned a record, get_vpc of its vpc_id, by a
\* manager of any region, returns a record equal to it in every field: the
\* id, the subnet ids in order, the tags, the region, the gateway id and the
\* route tables the provision used.
C17_RoundTrip ==
    CreateSucceeded =>
        \A r \in ReaderRegions :
            LET got == GetVpc(Unwrap(call.result).vpc_id, r)
            IN /\ got = call.result
               /\ Unwrap(got).vpc_id = call.vpc_id
               /\ Unwrap(got).subnet_ids = call.subnet_ids
               /\ Unwrap(got).tags =
                     (IF IsNone(call.vpc_tags) THEN <<>> ELSE Unwrap(call.vpc_tags))
               /\ Unwrap(got).region = call.region
               /\ Unwrap(got).igw = call.igw_id
               /\ Unwrap(got).route_tables =
                     Some([Public |-> call.rt_public_id,
                           Private |-> call.rt_private_id])

\* C17's case: a provision with a tag and MaxSubnets subnets, read back by a
\* manager of another region, while an older record is in the store.
C17_Witness ==
    /\ CreateSucceeded
    /\ call.vpc_tags = Some(<<TagName>>)
    /\ Len(call.subnet_ids) = MaxSubnets
    /\ DOMAIN pre.table # {}
    /\ GetVpc(call.vpc_id, "ap-south-1") = call.result

\* the positions of the call's log where api was served for id
Served(api, id) ==
    {i \in 1..Len(call.log) :
        call.log[i].api = api /\ call.log[i].id = id /\ call.log[i].ok}

\* the store holds the whole record of the provision in flight
CompleteRecord(id) ==
    /\ id = call.vpc_id /\ id \in DOMAIN table
    /\ HasAttr(table[id], "RouteTables") /\ HasAttr(table[id], "SubnetIds")
    /\ table[id].RouteTables.Public # None /\ table[id].RouteTables.Private # None
    /\ Len(table[id].SubnetIds) = call.subnet_count

\* C18: at every point of a create_vpc, a get_vpc of an id handed out during
\* the call finds nothing, or finds the record create_vpc returns, and a scan
\* shows no other item for it; put_item is called only once every subnet was
\* created, tagged and associated, and nothing but the return follows a
\* put_item that was served.
C18_NoPartialRecord ==
    call.op = "create" =>
        /\ \A id \in Allocated :
              \/ GetAbsent(id) /\ \A i \in 1..Len(Scan(table)) : Scan(table)[i].VpcId # id
              \/ /\ CreateSucceeded /\ CompleteRecord(id)
                 /\ \A r \in ReaderRegions : GetVpc(id, r) = call.result
        /\ \A i \in 1..Len(call.log) :
              call.log[i].api = "put_item" =>
                 /\ Len(call.subnet_ids) = call.subnet_count
                 /\ \A k \in 1..Len(call.subnet_ids) :
                       LET sid == call.subnet_ids[k]
                       IN \E a \in Served("create_subnet", sid),
                             b \in Served("create_tags", sid),
                             c \in Served("associate_route_table", sid) :
                             a < b /\ b < c /\ c < i
                 /\ call.log[i].ok => (i = Len(call.log) /\ CreateSucceeded)
        /\ table # pre.table =>
              ( Len(call.log) > 0 /\ call.log[Len(call.log)].api = "put_item"
                /\ call.log[Len(call.log)].ok )

\* C18's cases: the provision has created, tagged and associated its first
\* subnet and not yet the second, other records being in the store, and a
\* read of its VPC finds nothing.
C18_Witness ==
    /\ call.op = "create" /\ call.pc = "create_subnet"
    /\ call.subnet_count = MaxSubnets /\ Len(call.subnet_ids) = 1
    /\ call.subnet_ids[1] \in DOMAIN ec2.assoc
    /\ DOMAIN table # {}
    /\ call.vpc_id \in DOMAIN ec2.vpcs
    /\ GetAbsent(call.vpc_id)

\* the calls delete_vpc has issued after reading the record
TeardownLog == SelectSeq(call.log, LAMBDA e : e.ph = "delete" /\ e.api # "get_item")

\* the stage of delete_vpc a call belongs to
Stage(api) ==
    CASE api = "delete_subnet" -> 1
      [] api \in {"describe_route_tables", "disassociate_route_table",
                  "delete_route_table"} -> 2
      [] api \in {"describe_internet_gateways", "detach_internet_gateway",
                  "delete_internet_gateway"} -> 3
      [] api = "delete_vpc" -> 4
      [] api = "delete_item" -> 5
      [] OTHER -> 0

\* C21: in every delete_vpc of an id that has a record, the subnet deletions
\* come first, then the route-table calls, then the gateway calls, then
\* delete_vpc; delete_item is called only after delete_vpc was, nothing is
\* called after it, and the store is what it was until then.
C21_TeardownOrder ==
    call.op = "delete" =>
        /\ \A i \in 1..Len(TeardownLog) : Stage(TeardownLog[i].api) >= 1
        /\ \A i, j \in 1..Len(TeardownLog) :
              i < j => Stage(TeardownLog[i].api) <= Stage(TeardownLog[j].api)
        /\ \A i \in 1..Len(TeardownLog) :
              TeardownLog[i].api = "delete_item" =>
                 /\ i = Len(TeardownLog) /\ call.pc = "done"
                 /\ i > 1 /\ TeardownLog[i - 1].api = "delete_vpc"
                 /\ TeardownLog[i - 1].id = call.vpc_id
        /\ \A i \in 1..Len(TeardownLog) :
              TeardownLog[i].api = "delete_internet_gateway" =>
                 /\ i > 1 /\ TeardownLog[i - 1].api = "detach_internet_gateway"
                 /\ TeardownLog[i - 1].id = TeardownLog[i].id
        /\ Cardinality({i \in 1..Len(TeardownLog) :
                          TeardownLog[i].api = "delete_vpc"}) <= 1
        /\ table # pre.table =>
              ( Len(TeardownLog) > 0
                /\ TeardownLog[Len(TeardownLog)].api = "delete_item" )
        /\ (Done("delete") /\ call.vpc_id \in DOMAIN pre.table) =>
              ( Len(TeardownLog) > 0
                /\ TeardownLog[Len(TeardownLog)].api = "delete_item" )

\* C21's case: a teardown that made a call of every stage, a disassociation
\* included, and removed the record last.
C21_Witness ==
    /\ Done("delete")
    /\ {Stage(TeardownLog[i].api) : i \in 1..Len(TeardownLog)} = 1..5
    /\ \E i \in 1..Len(TeardownLog) : TeardownLog[i].api = "disassociate_route_table"
    /\ \E i \in 1..Len(TeardownLog) : TeardownLog[i].api = "delete_internet_gateway"
    /\ call.vpc_id \notin DOMAIN table

\* delete_vpc has called api for id
TdAttempted(api, id) ==
    \E i \in 1..Len(TeardownLog) :
        TeardownLog[i].api = api /\ TeardownLog[i].id = id

\* describe_route_tables was served
RtsDescribed ==
    \E i \in 1..Len(TeardownLog) :
        TeardownLog[i].api = "describe_route_tables" /\ TeardownLog[i].ok

\* the route tables the VPC had when delete_vpc was called (its main table,
\* which the provider made with the VPC, is none of them)
OwnTablesBefore == {rt \in DOMAIN pre.ec2.rts : pre.ec2.rts[rt] = call.vpc_id}

\* no main association is disassociated and no table that has one deleted
MainUntouched ==
    \A t \in 1..Len(call.rts) :
        LET associations == call.rts[t].Associations
            hasMain == \E a \in 1..Len(associations) : associations[a].Main
        IN /\ \A a \in 1..Len(associations) :
                 associations[a].Main =>
                    ~TdAttempted("disassociate_route_table",
                                 associations[a].RouteTableAssociationId)
           /\ hasMain => ~TdAttempted("delete_route_table", call.rts[t].RouteTableId)

\* every other association is disassociated and every other table deleted
OthersAttempted ==
    /\ \A t \in 1..Len(call.rts) :
          LET associations == call.rts[t].Associations
              hasMain == \E a \in 1..Len(associations) : associations[a].Main
          IN /\ \A a \in 1..Len(associations) :
                   ~associations[a].Main =>
                      TdAttempted("disassociate_route_table",
                                  associations[a].RouteTableAssociationId)
             /\ ~hasMain => TdAttempted("delete_route_table", call.rts[t].RouteTableId)
    /\ \A rt \in OwnTablesBefore : TdAttempted("delete_route_table", rt)
    /\ \A s \in DOMAIN ec2.assoc :
          ec2.assoc[s] \in OwnTablesBefore =>
             TdAttempted("disassociate_route_table", s)

\* delete_vpc of an id that had a record is over
TeardownOver == Done("delete") /\ call.vpc_id \in DOMAIN pre.table

\* C22 (as claimed): a delete_vpc never disassociates a main association nor
\* deletes a table that has one, and calls disassociate for every other
\* association and delete for every other table of the VPC.
C22_MainExcludedAll ==
    TeardownOver => (MainUntouched /\ OthersAttempted)

\* C22 (amended): the same, the second half provided describe_route_tables
\* was served; when it raised, no route-table call is made at all.
C22_MainExcluded ==
    /\ call.op = "delete" =>
          /\ MainUntouched
          /\ \A i \in 1..Len(TeardownLog) :
                TeardownLog[i].api \in {"disassociate_route_table", "delete_route_table"}
                   => ( RtsDescribed /\ TeardownLog[i].id > 0 )
    /\ (TeardownOver /\ RtsDescribed) => OthersAttempted

\* C22's case: a subnet could not be deleted, so its association was there to
\* disassociate; the VPC's main table was described and left alone, and both
\* of its other tables were deleted.
C22_Witness ==
    /\ TeardownOver /\ RtsDescribed
    /\ Len(call.rts) = 3
    /\ call.rts[1].Associations[1].Main
    /\ \E i \in 1..Len(TeardownLog) :
          TeardownLog[i].api = "disassociate_route_table" /\ TeardownLog[i].ok
    /\ Cardinality({i \in 1..Len(TeardownLog) :
          TeardownLog[i].api = "delete_route_table" /\ TeardownLog[i].ok}) = 2

\* C23: update_vpc never adds a record to the store: whatever the id, and in
\* particular for the id of a VPC whose record a delete_vpc has removed, the
\* store holds after the call records for no other ids than before it.
C23_UpdateAddsNoRecord ==
    call.op = "update" => DOMAIN table \subseteq DOMAIN pre.table

\* the call of the pair whose update_item was served last
LastWriter ==
    LET served == SelectSeq(race.log, LAMBDA e : e.api = "update_item" /\ e.ok)
    IN IF served = <<>> THEN 0 ELSE served[Len(served)].p

\* two update_vpc calls with non-empty tag lists for an id that has a record
RaceOnRecord ==
    /\ race.pc = "on" /\ race.vpc_id \in DOMAIN race.before
    /\ Truthy(race.tags[1]) /\ Truthy(race.tags[2])

ProvisionLog == SelectSeq(call.log, LAMBDA e : e.ph = "create")

\* how many calls of api were served in the provision before its i-th call
ServedBefore(api, i) ==
    Cardinality({j \in 1..(i - 1) :
                    ProvisionLog[j].api = api /\ ProvisionLog[j].ok})

\* C25: in every provision the only route created is 0.0.0.0/0 to the
\* provision's gateway on its public route table; the one create_route call
\* is made after the gateway was created and attached and while the public
\* route table is the only one the provision has; no route is ever on the
\* private route table; and no create_subnet call is made before both route
\* tables were created.
C25_DefaultRouteOnlyPublic ==
    call.op = "create" =>
        /\ ec2.routes \ pre.ec2.routes \subseteq
              {<<call.rt_public_id, DefaultRoute, call.igw_id>>}
        /\ \A r \in ec2.routes \ pre.ec2.routes :
              /\ r[1] # None /\ r[3] # None /\ r[1] # call.rt_private_id
              /\ r[1] \in DOMAIN ec2.rts /\ ec2.rts[r[1]] = call.vpc_id
        /\ call.rt_private_id # None =>
              \A r \in ec2.routes : r[1] # call.rt_private_id
        /\ Cardinality({i \in 1..Len(ProvisionLog) :
                           ProvisionLog[i].api = "create_route"}) <= 1
        /\ \A i \in 1..Len(ProvisionLog) :
              /\ ProvisionLog[i].api = "create_route" =>
                    /\ ProvisionLog[i].id = call.rt_public_id
                    /\ ProvisionLog[i].id # None
                    /\ ServedBefore("create_internet_gateway", i) = 1
                    /\ ServedBefore("attach_internet_gateway", i) = 1
                    /\ ServedBefore("create_route_table", i) = 1
              /\ ProvisionLog[i].api = "create_subnet" =>
                    /\ ServedBefore("create_route_table", i) = 2
                    /\ ServedBefore("create_route", i) = 1
                    /\ call.rt_public_id # None /\ call.rt_private_id # None

\* C25's case: a second provision has returned its record with two subnets
\* while the first one's tables exist; its public table has the default route
\* to its gateway and its private table none.
C25_Witness ==
    /\ CreateSucceeded /\ Len(call.subnet_ids) = 2
    /\ pre.ec2.rts # EmptyFn
    /\ <<call.rt_public_id, DefaultRoute, call.igw_id>> \in ec2.routes
    /\ call.rt_private_id \in DOMAIN ec2.rts
    /\ \A r \in ec2.routes : r[1] # call.rt_private_id
    /\ <<call.igw_id, call.vpc_id>> \in ec2.attach

\* _rollback_vpc went through all of its steps: a call was made for every id
\* it was given, the last of them delete_vpc
RollbackComplete ==
    /\ \A id \in GivenIds :
          \E i \in 1..Len(RollbackLog) : RollbackLog[i].id = id
    /\ call.vpc_id # None =>
          /\ RollbackLog # <<>>
          /\ RollbackLog[Len(RollbackLog)].api = "delete_vpc"
          /\ RollbackLog[Len(RollbackLog)].id = call.vpc_id
    /\ call.vpc_id = None => RollbackLog = <<>>

\* how often the while loop of _calculate_subnets runs for the arguments of
\* the provision in flight, and the prefix length of its base network
SearchOfCall ==
    LET net == ip_network(call.vpc_cidr).net
        found == PrefixSearch(net.prefixlen, call.subnet_count, net.prefixlen, 1)
    IN [increments |-> found.current_prefix - net.prefixlen,
        basePrefix |-> net.prefixlen]

\* create_vpc has returned the record it stored
ReturnedRecord ==
    /\ CreateSucceeded /\ call.outcome = "returned"
    /\ call.vpc_id \in DOMAIN table
    /\ normalize_vpc_record(GetItem(table, call.vpc_id), call.region) = call.result

\* C26: every create_vpc call that is started comes to its end, provided each
\* remote and store call returns or raises: it returns the stored record or
\* None and never raises; when it returns None, _rollback_vpc has gone through
\* all of its steps; and the prefix search of _calculate_subnets makes at most
\* 32 - basePrefix increments.
C26_ProvisionTerminates ==
    /\ (call.op = "create") ~> (ReturnedRecord \/ CreateFailed)
    /\ [](call.op = "create" => call.outcome \in {"none", "returned"})
    /\ [](Done("create") => (ReturnedRecord \/ CreateFailed))
    /\ [](CreateFailed => RollbackComplete)
    /\ []((call.op = "create" /\ ip_network(call.vpc_cidr).ok) =>
             /\ SearchOfCall.increments >= 0
             /\ SearchOfCall.increments <= AddrBits - SearchOfCall.basePrefix)

\* C26's case: a provision of more subnets than the base network holds has
\* returned None after a rollback that ended with a failed delete_vpc; its
\* prefix search made all 32 - basePrefix increments.
C26_Witness ==
    /\ CreateFailed /\ call.subnet_count = BigCount
    /\ SearchOfCall.increments = AddrBits - SearchOfCall.basePrefix
    /\ SearchOfCall.increments > 0
    /\ call.vpc_id \in DOMAIN ec2.vpcs
    /\ RollbackComplete
    /\ ~RollbackLog[Len(RollbackLog)].ok

===========================================================================
